---- MODULE Spec2Model ----
(***************************************************************************)
(* Model of pkg/nfd-worker/nfd-worker.go: the NFD worker's Run loop, its    *)
(* connection management (connect/disconnect), configuration loading       *)
(* (configure) and config-file watching (addConfigWatch).                  *)
(*                                                                         *)
(* Time is discrete.  One time unit is 1/Second of a second.  A timer made *)
(* by time.After(d) is a number: the time left until it fires; 0 means the *)
(* timer has fired and its channel holds a value; NoTimer means that the   *)
(* channel variable is nil or that its single value was already received.  *)
(***************************************************************************)
EXTENDS Integers, Sequences, FiniteSets, TLC

\* ------------------------------------------------------------------ bounds
\* Time units per second (resolution of the clock).
Second == 2
\* Largest --sleep-interval tried, in time units.
MaxSleep == 2
\* The history counters (cycles, sinceReconf) saturate here.
MaxCount == 2

NoTimer == -1

\* time.After(time.Second) at the rate limiter (debounce) of Run.
Debounce == Second

Min(a, b) == IF a < b THEN a ELSE b
Bump(n) == Min(n + 1, MaxCount)

\* ------------------------------------------------------------- file paths
\* A path is the sequence of its components; an absolute path starts with
\* the component "/".  "" is the empty sequence, "." is <<".">>.
Root == <<"/">>
Dot == <<".">>

Front(p) == SubSeq(p, 1, Len(p) - 1)

\* filepath.Dir
Dir(p) ==
    IF p = <<>> THEN Dot
    ELSE IF Len(p) = 1 THEN (IF p = Root THEN Root ELSE Dot)
    ELSE Front(p)

\* One step of filepath.Clean: component c appended to the cleaned prefix out.
CleanStep(out, c, rooted) ==
    IF c = "" \/ c = "." THEN out
    ELSE IF c = ".."
         THEN IF Len(out) > (IF rooted THEN 1 ELSE 0) /\ out[Len(out)] # ".."
              THEN Front(out)
              ELSE IF rooted THEN out ELSE Append(out, c)
    ELSE Append(out, c)

RECURSIVE CleanFrom(_, _, _, _)
CleanFrom(p, i, out, rooted) ==
    IF i > Len(p) THEN out
    ELSE CleanFrom(p, i + 1, CleanStep(out, p[i], rooted), rooted)

\* filepath.Clean
Clean(p) ==
    IF p = <<>> THEN Dot
    ELSE LET rooted == p[1] = "/"
             out == IF rooted THEN CleanFrom(p, 2, Root, TRUE)
                    ELSE CleanFrom(p, 1, <<>>, FALSE)
         IN IF out = <<>> THEN Dot ELSE out

\* The chain of addConfigWatch: path and every filepath.Dir ancestor of it.
RECURSIVE Chain(_)
Chain(p) == IF Dir(p) = p THEN {p} ELSE {p} \cup Chain(Dir(p))

\* --config values tried ("" is "no config file").
ConfigFiles == { <<"/", "d", ".", "f">>, <<>> }

\* Names carried by filesystem events, as the watcher reports them.
EventNames ==
    { <<"/", "d", "f">>, <<"/", "d", "g">>, <<"/", "d", "">>, <<"/", "e">>,
      <<>>, <<"f">> }

\* ---------------------------------------------------------- configuration
\* A configuration document (the config file or the --options string).
\* kind: "unreadable" (ioutil.ReadFile fails), "invalid" (not YAML),
\* "doc" (parses).  noPublish is the text of core.noPublish, or "absent".
\* sources is the sources section: the section of each source named in it;
\* a section "bad" is not of the type of the source's configuration (a
\* number, say), any other section decodes to the value of that name.  A
\* source name is a string as in the feature sources below.
NoSections == [n \in {} |-> "bad"]

Docs ==
    [kind : {"doc"}, noPublish : {"absent", "true", "false", "notbool"},
     sources : {NoSections}]
    \cup [kind : {"invalid"}, noPublish : {"absent"}, sources : {NoSections}]

Unreadable == [kind |-> "unreadable", noPublish |-> "absent",
               sources |-> NoSections]

FileDocs == Docs \cup {Unreadable}

EmptyDoc == [kind |-> "doc", noPublish |-> "absent", sources |-> NoSections]

\* What ioutil.ReadFile(path) may give: reading the empty path always fails.
ReadFile(path) == IF path = <<>> THEN {Unreadable} ELSE FileDocs

\* The orders in which a range statement may take the keys of a map with
\* key set keys.
MapOrders(keys) ==
    {o \in [1..Cardinality(keys) -> keys] :
        \A i, j \in 1..Cardinality(keys) : o[i] = o[j] => i = j}

\* The orders in which the sections of the file and of --options are taken.
RangeOrders(file, options) ==
    [file : MapOrders(DOMAIN file.sources),
     options : MapOrders(DOMAIN options.sources)]

\* &NFDConfig{Core: coreConfig{}}: Sources is the nil map.
newDefaultConfig == [Core |-> [NoPublish |-> FALSE], Sources |-> NoSections]

\* s.NewConfig(): the default configuration of source n.
NewConfig(n) == "default"

NoError == [kind |-> "nil", source |-> <<>>]

\* sourcesConfig.UnmarshalJSON, the range over raw taking the keys in the
\* order given: the sources configuration after decoding sections into cs,
\* and the error returned.  A key that cs does not have is passed over; the
\* first section that fails to decode ends the loop with an error that
\* names its source.
RECURSIVE UnmarshalJSON(_, _, _)
UnmarshalJSON(sections, order, cs) ==
    IF order = <<>> THEN [cs |-> cs, err |-> NoError]
    ELSE IF order[1] \notin DOMAIN cs
    THEN UnmarshalJSON(sections, Tail(order), cs)
    ELSE IF sections[order[1]] = "bad"
    THEN [cs |-> cs, err |-> [kind |-> "source", source |-> order[1]]]
    ELSE UnmarshalJSON(sections, Tail(order),
                       [cs EXCEPT ![order[1]] = sections[order[1]]])

\* yaml.Unmarshal(data, c): the configuration after decoding doc into c, and
\* the error returned.  The document is converted to JSON with its keys
\* sorted, so core is decoded before sources.  A value of the wrong type
\* leaves the field as it was and is reported after the rest was decoded;
\* the error of UnmarshalJSON ends the decoding and is the one reported.
Unmarshal(doc, c, order) ==
    IF doc.kind # "doc"
    THEN [c |-> c, err |-> [kind |-> "yaml", source |-> <<>>]]
    ELSE LET core == IF doc.noPublish \in {"true", "false"}
                     THEN [c EXCEPT !.Core.NoPublish = (doc.noPublish = "true")]
                     ELSE c
             saved == IF doc.noPublish = "notbool"
                      THEN [kind |-> "type", source |-> <<>>] ELSE NoError
             r == UnmarshalJSON(doc.sources, order, core.Sources)
         IN [c |-> [core EXCEPT !.Sources = r.cs],
             err |-> IF r.err # NoError THEN r.err ELSE saved]

\* configure that falls back to the defaults when --options fails to parse.
configure_revert(a, srcs, file, order) ==
    LET c0 == [newDefaultConfig EXCEPT
                  !.Sources = [n \in {srcs[i] : i \in 1..Len(srcs)} |->
                                  NewConfig(n)]]
        c1 == IF file.kind = "unreadable" THEN c0
              ELSE Unmarshal(file, c0, order.file).c
        r2 == Unmarshal(a.Options, c1, order.options)
        c2 == IF r2.err # NoError THEN c0 ELSE r2.c
    IN IF a.NoPublish # "nil"
       THEN [c2 EXCEPT !.Core.NoPublish = (a.NoPublish = "true")]
       ELSE c2

\* nfdWorker.configure: the new value of w.config, for the active sources
\* srcs.  The configuration of each source is its entry of Sources.
configure(a, srcs, file, order) ==
    LET c0 == [newDefaultConfig EXCEPT
                  !.Sources = [n \in {srcs[i] : i \in 1..Len(srcs)} |->
                                  NewConfig(n)]]
        c1 == IF file.kind = "unreadable" THEN c0
              ELSE Unmarshal(file, c0, order.file).c
        c2 == Unmarshal(a.Options, c1, order.options).c
    IN IF a.NoPublish # "nil"
       THEN [c2 EXCEPT !.Core.NoPublish = (a.NoPublish = "true")]
       ELSE c2

\* ------------------------------------------------------------- connection
\* A connection state s is [clientConn, client, open]: the worker's two
\* fields (0 is nil, otherwise the id of a channel) and the set of channels
\* that were dialed and not closed.
NoConn == [clientConn |-> 0, client |-> 0, open |-> {}]

NewConnId(open) == CHOOSE i \in 1..(Cardinality(open) + 1) : i \notin open

\* Outcomes of the dial part of connect.  "tls": the client certificate or
\* the CA file cannot be loaded (only when the TLS files are given; the three
\* returns are alike: an error and no dial); "dial": grpc.DialContext fails;
\* "ok": it gives a channel.
ConnectOutcomes == {"ok", "tls", "dial"}

\* connect without the check for an existing connection.
connect_again(cfg, s, outcome) ==
    IF cfg.Core.NoPublish
    THEN [s |-> s, err |-> "nil", dialed |-> FALSE]
    ELSE IF outcome # "ok"
    THEN [s |-> s, err |-> outcome, dialed |-> outcome = "dial"]
    ELSE LET id == NewConnId(s.open)
         IN [s |-> [clientConn |-> id, client |-> id,
                    open |-> s.open \cup {id}],
             err |-> "nil", dialed |-> TRUE]

\* connect without the dry-run shortcut.
connect_nodryrun(cfg, s, outcome) ==
    IF s.clientConn # 0
    THEN [s |-> s, err |-> "exists", dialed |-> FALSE]
    ELSE IF outcome # "ok"
    THEN [s |-> s, err |-> outcome, dialed |-> outcome = "dial"]
    ELSE LET id == NewConnId(s.open)
         IN [s |-> [clientConn |-> id, client |-> id,
                    open |-> s.open \cup {id}],
             err |-> "nil", dialed |-> TRUE]

\* nfdWorker.connect
connect(cfg, s, outcome) ==
    IF cfg.Core.NoPublish
    THEN [s |-> s, err |-> "nil", dialed |-> FALSE]
    ELSE IF s.clientConn # 0
    THEN [s |-> s, err |-> "exists", dialed |-> FALSE]
    ELSE IF outcome # "ok"
    THEN [s |-> s, err |-> outcome, dialed |-> outcome = "dial"]
    ELSE LET id == NewConnId(s.open)
         IN [s |-> [clientConn |-> id, client |-> id,
                    open |-> s.open \cup {id}],
             err |-> "nil", dialed |-> TRUE]

\* disconnect that drops the fields without closing the channel.
disconnect_leak(s) == [clientConn |-> 0, client |-> 0, open |-> s.open]

\* disconnect that closes the channel and leaves the client set.
disconnect_client(s) ==
    [clientConn |-> 0, client |-> s.client,
     open |-> IF s.clientConn # 0 THEN s.open \ {s.clientConn} ELSE s.open]

\* nfdWorker.disconnect
disconnect(s) ==
    [clientConn |-> 0, client |-> 0,
     open |-> IF s.clientConn # 0 THEN s.open \ {s.clientConn} ELSE s.open]

\* ---------------------------------------------------------------- watcher
\* A watcher is [id, watched]: id 0 is the nil watcher, watched is the set
\* of paths whose w.Add succeeded.
NilWatcher == [id |-> 0, watched |-> {}]

\* The id of a watcher made while watcher prev is (or was) in use.
NewWatcherId(prev) == IF prev.id = 1 THEN 2 ELSE 1

\* addConfigWatch(path).  created: fsnotify.NewWatcher succeeds; addable:
\* the paths for which w.Add succeeds.
addConfigWatch(path, prev, created, addable) ==
    IF ~created
    THEN [w |-> NilWatcher, paths |-> {}, err |-> TRUE]
    ELSE LET chain == Chain(path)
             added == chain \cap addable
         IN [w |-> [id |-> NewWatcherId(prev), watched |-> added],
             paths |-> chain,
             err |-> (added = {})]

\* Sets of paths the environment may let a watch be added on, among the
\* chain of path: w.Add fails or succeeds on each path by itself (a missing
\* file, a directory that may not be read, the limit of watches reached).
\* A watch on the empty path always fails.
Addable(path) == SUBSET (Chain(path) \ {<<>>})

\* The watcher reports events of the paths it watches and of the entries of
\* the directories it watches.
Deliverable(w, name) ==
    LET n == Clean(name) IN n \in w.watched \/ Dir(n) \in w.watched

\* What the environment may do to an addConfigWatch call: whether the
\* watcher is created, and the paths a watch can then be added on.
WatchEnvs(path) ==
    [created : {TRUE}, addable : Addable(path)]
    \cup [created : {FALSE}, addable : {{}}]

\* -------------------------------------------------------- feature sources
\* A string (a source name, a feature key, a label name) is the sequence of
\* its tokens: words of letters and digits, "-", "/" and " ".  "" is <<>>.
IsWord(t) == t \notin {"-", "/", " "}

\* Line 123-137: the registry, local last.
allSources ==
    << <<"cpu">>, <<"iommu">>, <<"kernel">>, <<"memory">>, <<"network">>,
       <<"pci">>, <<"storage">>, <<"system">>, <<"usb">>, <<"custom">>,
       <<"local">> >>

\* Lines 145-146: the test sources, appended when sources are listed.
testSources == << <<"fake">>, <<"panicfake">> >>

\* The elements of sequence s that are in set keep, in the order of s.
RECURSIVE Select(_, _)
Select(s, keep) ==
    IF s = <<>> THEN <<>>
    ELSE IF s[1] \in keep THEN <<s[1]>> \o Select(Tail(s), keep)
    ELSE Select(Tail(s), keep)

\* strings.TrimSpace: s without its leading and trailing spaces.
RECURSIVE TrimSpace(_)
TrimSpace(s) ==
    IF s = <<>> THEN s
    ELSE IF s[1] = " " THEN TrimSpace(Tail(s))
    ELSE IF s[Len(s)] = " " THEN TrimSpace(SubSeq(s, 1, Len(s) - 1))
    ELSE s

\* Lines 140-167: the active sources for --sources value requested.  The
\* value "all" is compared as given; the names listed are trimmed.
ActiveSources(requested) ==
    IF Len(requested) = 1 /\ requested[1] = <<"all">>
    THEN allSources
    ELSE Select(allSources \o testSources,
                {TrimSpace(requested[i]) : i \in 1..Len(requested)})

\* ------------------------------------------------------------------ labels
\* The first index of a "/" in k, or 0.
SlashAt(k) ==
    IF \E i \in 1..Len(k) : k[i] = "/"
    THEN CHOOSE i \in 1..Len(k) : k[i] = "/" /\ \A j \in 1..(i-1) : k[j] # "/"
    ELSE 0

\* strings.SplitN(k, "/", 2)
SplitN2(k) ==
    IF SlashAt(k) = 0 THEN <<k>>
    ELSE <<SubSeq(k, 1, SlashAt(k) - 1), SubSeq(k, SlashAt(k) + 1, Len(k))>>

\* The name part of a qualified name and a DNS subdomain (the names tried
\* are lower case and short): not empty, made of words and "-", beginning
\* and ending with a word.
IsNamePart(n) ==
    /\ n # <<>>
    /\ \A i \in 1..Len(n) : IsWord(n[i]) \/ n[i] = "-"
    /\ IsWord(n[1]) /\ IsWord(n[Len(n)])

\* validation.IsQualifiedName(v): no error.  v is a name part, or a
\* subdomain, one "/" and a name part.
IsQualifiedName(v) ==
    LET split == SplitN2(v)
    IN IF Len(split) = 1 THEN IsNamePart(v)
       ELSE IsNamePart(split[1]) /\ IsNamePart(split[2])

\* A feature value is a Go value: a string (a token sequence) or a bool.
\* fmt.Sprintf("%v", v)
Sprintf(v) ==
    IF v.type = "bool" THEN (IF v.val THEN <<"true">> ELSE <<"false">>)
    ELSE v.val

\* validation.IsValidLabelValue(value): no error.  The empty value is valid.
IsValidLabelValue(value) == value = <<>> \/ IsNamePart(value)

\* p is a prefix of s.
HasPrefix(s, p) == Len(p) <= Len(s) /\ SubSeq(s, 1, Len(p)) = p

\* A regular expression is a literal, anchored at the start ("^lit") or not;
\* the empty literal matches every string.  regexp.MatchString
MatchString(re, s) ==
    IF re.anchored THEN HasPrefix(s, re.lit)
    ELSE \E i \in 0..Len(s) : HasPrefix(SubSeq(s, i + 1, Len(s)), re.lit)

\* Lines 445-450: the prefix of the labels of a source.
Prefix(source) == IF source = <<"local">> THEN <<>> ELSE source \o <<"-">>

\* The whitelist matched against the whole key ns/name.
Names_wholekey(source, k) ==
    LET split == SplitN2(k)
        label == Prefix(source) \o split[1]
    IN IF Len(split) = 2
       THEN [label |-> k, nameForValidation |-> k,
             nameForWhiteListing |-> k]
       ELSE [label |-> label, nameForValidation |-> <<"ns", "/">> \o label,
             nameForWhiteListing |-> label]

\* Lines 456-466: the three names made from feature key k of a source.
Names(source, k) ==
    LET split == SplitN2(k)
        label == Prefix(source) \o split[1]
    IN IF Len(split) = 2
       THEN [label |-> k, nameForValidation |-> k,
             nameForWhiteListing |-> split[2]]
       ELSE [label |-> label, nameForValidation |-> <<"ns", "/">> \o label,
             nameForWhiteListing |-> label]

\* Lines 468-487: feature k with value v of a source passes the three checks.
Accepted(source, re, k, v) ==
    /\ IsQualifiedName(Names(source, k).nameForValidation)
    /\ IsValidLabelValue(Sprintf(v))
    /\ MatchString(re, Names(source, k).nameForWhiteListing)

\* Labels{} and the labels made of the features among keys that pass.
EmptyLabels == [l \in {} |-> <<>>]

LabelsOf(source, re, features, keys) ==
    LET kept == {k \in keys : Accepted(source, re, k, features[k])}
        names == {Names(source, k).label : k \in kept}
    IN [l \in names |->
           Sprintf(features[CHOOSE k \in kept : Names(source, k).label = l])]

\* The panic recovered and err left nil.
getFeatureLabels_noerr(source, re, d) ==
    IF d.result = "error" THEN [labels |-> EmptyLabels, err |-> "error"]
    ELSE IF d.result = "panic"
    THEN [labels |-> LabelsOf(source, re, d.features, d.done),
          err |-> "nil"]
    ELSE [labels |-> LabelsOf(source, re, d.features, DOMAIN d.features),
          err |-> "nil"]

\* What a call of source.Discover() and the loop over its features does:
\* result "ok" (features returned), "error" (an error returned) or "panic";
\* a panic occurs in Discover (done is empty) or in the loop, after the
\* features in done were handled (the loop takes them in any order).
\* getFeatureLabels: the named results labels and err after the deferred
\* recover.  A nil map is the empty map.
getFeatureLabels(source, re, d) ==
    IF d.result = "error" THEN [labels |-> EmptyLabels, err |-> "error"]
    ELSE IF d.result = "panic"
    THEN [labels |-> LabelsOf(source, re, d.features, d.done),
          err |-> "recovered"]
    ELSE [labels |-> LabelsOf(source, re, d.features, DOMAIN d.features),
          err |-> "nil"]

\* The labels of an earlier source kept.
Merge_first(a, b) ==
    [l \in DOMAIN a \cup DOMAIN b |-> IF l \in DOMAIN a THEN a[l] ELSE b[l]]

\* labels[name] = value for every label of b.
Merge(a, b) ==
    [l \in DOMAIN a \cup DOMAIN b |-> IF l \in DOMAIN b THEN b[l] ELSE a[l]]

\* Lines 411-424: the loop of createFeatureLabels over sources srcs, labels
\* being the labels so far.  disc[source] is what the source's discovery
\* does in this cycle.
RECURSIVE createFeatureLabelsFrom(_, _, _, _)
createFeatureLabelsFrom(srcs, re, disc, labels) ==
    IF srcs = <<>> THEN labels
    ELSE LET r == getFeatureLabels(srcs[1], re, disc[srcs[1]])
         IN createFeatureLabelsFrom(Tail(srcs), re, disc,
                IF r.err # "nil" THEN labels ELSE Merge(labels, r.labels))

\* createFeatureLabels
createFeatureLabels(srcs, re, disc) ==
    createFeatureLabelsFrom(srcs, re, disc, EmptyLabels)

\* ----------------------------------------------- what discovery may find
\* At most this many features per source.
MaxFeatures == 1

\* The keys the sources report on the machines tried; the other sources
\* find nothing.
FeatureKeys(source) ==
    IF source = <<"cpu">>
    THEN { <<"model">>, <<"ns", "/", "model">>, <<"-">> }
    ELSE IF source = <<"local">>
    THEN { <<"cpu", "-", "model">>, <<"ns", "/", "model">> }
    ELSE {}

FeatureValues ==
    { [type |-> "string", val |-> <<"x86_64">>],
      [type |-> "string", val |-> <<"arm64">>],
      [type |-> "string", val |-> <<"no", " ", "good">>],
      [type |-> "bool", val |-> TRUE] }

FeatureMaps(source) ==
    UNION { [ks -> FeatureValues] :
            ks \in {x \in SUBSET FeatureKeys(source) :
                       Cardinality(x) <= MaxFeatures} }

\* What the discovery of a source may do in one cycle.  The panicfake
\* source panics in Discover; a source that finds nothing returns an
\* empty map.
Outcomes(source) ==
    IF source = <<"panicfake">>
    THEN {[result |-> "panic", features |-> EmptyLabels, done |-> {}]}
    ELSE IF FeatureKeys(source) = {}
    THEN {[result |-> "ok", features |-> EmptyLabels, done |-> {}]}
    ELSE {[result |-> "ok", features |-> f, done |-> {}] :
             f \in FeatureMaps(source)}
         \cup {[result |-> "error", features |-> EmptyLabels, done |-> {}]}
         \cup UNION {[result : {"panic"}, features : {f},
                      done : SUBSET DOMAIN f] : f \in FeatureMaps(source)}

\* One cycle: what each active source does.
RECURSIVE Discoveries(_)
Discoveries(srcs) ==
    IF srcs = <<>> THEN {EmptyLabels}
    ELSE {[n \in DOMAIN d \cup {srcs[1]} |->
              IF n = srcs[1] THEN o ELSE d[n]] :
             d \in Discoveries(Tail(srcs)), o \in Outcomes(srcs[1])}

\* --sources values tried: "all", "local, cpu", "local,panicfake,cpu", "cpu".
SourceLists ==
    { << <<"all">> >>, << <<"local">>, <<" ", "cpu">> >>,
      << <<"local">>, <<"panicfake">>, <<"cpu">> >>, << <<"cpu">> >> }

\* --label-whitelist values tried: "", "^model", "cpu", "ns".
WhiteLists ==
    { [anchored |-> FALSE, lit |-> <<>>],
      [anchored |-> TRUE, lit |-> <<"model">>],
      [anchored |-> FALSE, lit |-> <<"cpu">>],
      [anchored |-> FALSE, lit |-> <<"ns">>] }

\* ------------------------------------------------------------------ state
VARIABLES
    pc,             \* "init" (constructed), "running" (in the loop), "done"
    result,         \* what Run returned: "none", "ok" or the error
    args,           \* w.args
    configFilePath, \* w.configFilePath
    sources,        \* w.sources
    labelWhiteList, \* w.labelWhiteList
    config,         \* w.config
    clientConn,     \* w.clientConn (0 is nil)
    client,         \* w.client (0 is nil)
    open,           \* channels dialed and not closed
    labelTrigger,   \* Run's labelTrigger timer
    configTrigger,  \* Run's configTrigger timer
    configWatch,    \* Run's configWatch
    paths,          \* Run's paths (the watch set)
    last,           \* history: what the last handler did
    cycles,         \* history: discovery cycles performed so far
    sinceReconf,    \* history: cycles since the start or the last reconfiguration
    burst,          \* history: watched-path events handled in the latest burst
                    \* (a run of such events without a reconfiguration between)
    owed,           \* history: bursts begun, less reconfigurations performed
    sinceEvent,     \* history: the time since the latest watched-path event
                    \* that awaits its reconfiguration, counted up to
                    \* Debounce; NoTimer when none awaits
    discovery,      \* history: what the sources did in the latest cycle
    labels          \* history: the labels of the latest cycle

vars == <<pc, result, args, configFilePath, config, clientConn, client, open,
          labelTrigger, configTrigger, configWatch, paths, last, cycles,
          sinceReconf, burst, owed, sinceEvent, sources, labelWhiteList,
          discovery, labels>>

\* The fields that are set at construction only.
fixed == <<args, configFilePath, sources, labelWhiteList>>

S == [clientConn |-> clientConn, client |-> client, open |-> open]

\* The record of a handler that did nothing, begun in connection state s.
\* hadConn: a connection existed when the handler began; connect: "no" (not
\* called) or what connect returned; dialed: grpc.DialContext was called;
\* relevant: the event's path was in the watch set.
Did(kind, s) ==
    [kind |-> kind, hadConn |-> s.clientConn # 0, discover |-> FALSE,
     setLabels |-> FALSE, connect |-> "no", dialed |-> FALSE,
     relevant |-> FALSE]

\* Args the worker is constructed with: --sources=kernel and no
\* --label-whitelist.
ArgsSet ==
    [Oneshot : BOOLEAN, SleepInterval : 0..MaxSleep,
     NoPublish : {"nil", "true", "false"},
     Options : {d \in Docs : d.noPublish # "notbool"},
     ConfigFile : ConfigFiles,
     Sources : {<< <<"kernel">> >>},
     LabelWhiteList : {[anchored |-> FALSE, lit |-> <<>>]}]

\* NewNfdWorker: the worker's fields after construction.  The worker keeps
\* the copy of args made when the struct was built; the sleep interval is
\* forced to one second in the local variable afterwards.
NewNfdWorker(a) ==
    LET nfd == [args |-> a,
                config |-> [Core |-> [NoPublish |-> FALSE],
                            Sources |-> NoSections],
                configFilePath |-> IF a.ConfigFile # <<>>
                                   THEN Clean(a.ConfigFile) ELSE <<>>,
                sources |-> ActiveSources(a.Sources),
                labelWhiteList |-> a.LabelWhiteList]
        local == IF a.SleepInterval > 0 /\ a.SleepInterval < Second
                 THEN [a EXCEPT !.SleepInterval = Second] ELSE a
    IN nfd

\* The state once NewNfdWorker(a) has returned the worker.
Constructed(a) ==
    LET nfd == NewNfdWorker(a)
    IN /\ args = nfd.args
       /\ config = nfd.config
       /\ configFilePath = nfd.configFilePath
       /\ sources = nfd.sources
       /\ labelWhiteList = nfd.labelWhiteList

\* Run was not called yet.
NotStarted ==
    /\ pc = "init"
    /\ result = "none"
    /\ clientConn = 0 /\ client = 0 /\ open = {}
    /\ labelTrigger = NoTimer /\ configTrigger = NoTimer
    /\ configWatch = NilWatcher /\ paths = {}
    /\ last = Did("none", NoConn)
    /\ cycles = 0 /\ sinceReconf = 0 /\ burst = 0 /\ owed = 0
    /\ sinceEvent = NoTimer
    /\ discovery = EmptyLabels /\ labels = EmptyLabels

Init == (\E a \in ArgsSet : Constructed(a)) /\ NotStarted

\* fmt.Errorf("failed to connect: %v", err)
FailedToConnect(e) == IF e = "dial" THEN "failed to connect: dial"
                      ELSE "failed to connect: tls"

\* The connection fields become those of s.
Keep(s) ==
    /\ clientConn' = s.clientConn
    /\ client' = s.client
    /\ open' = s.open

\* Run returns ret; the deferred disconnect (if registered) runs.
Return(ret, s, deferred) ==
    /\ pc' = "done"
    /\ result' = ret
    /\ Keep(IF deferred THEN disconnect(s) ELSE s)

\* ---------------------------------------------------------------- actions
\* Run up to the loop: addConfigWatch, configure, connect, defer disconnect,
\* labelTrigger := time.After(0).
RunStart ==
    /\ pc = "init"
    /\ \E env \in WatchEnvs(configFilePath), file \in ReadFile(configFilePath),
          outcome \in ConnectOutcomes :
       \E order \in RangeOrders(file, args.Options) :
          LET aw == addConfigWatch(configFilePath, configWatch, env.created,
                                   env.addable)
              cfg == configure(args, sources, file, order)
              r == connect(cfg, S, outcome)
          IN /\ configWatch' = aw.w
             /\ paths' = aw.paths
             /\ IF aw.err
                THEN /\ Return("watch", S, FALSE)
                     /\ last' = Did("start", S)
                     /\ UNCHANGED <<config, labelTrigger>>
                ELSE /\ config' = cfg
                     /\ last' = [Did("start", S) EXCEPT !.connect = r.err,
                                                     !.dialed = r.dialed]
                     /\ IF r.err # "nil"
                        THEN /\ Return(FailedToConnect(r.err), r.s, FALSE)
                             /\ UNCHANGED labelTrigger
                        ELSE /\ pc' = "running"
                             /\ UNCHANGED result
                             /\ Keep(r.s)
                             /\ labelTrigger' = 0
    /\ UNCHANGED <<fixed, discovery, labels, configTrigger, cycles, sinceReconf,
                   burst, owed, sinceEvent>>

\* A channel that delivers again and again (a ticker).
Received_again(t) == t

\* The timer channel t after its value was received: nothing more will ever
\* arrive on it.
Received(t) == NoTimer

\* Re-arming whatever the sleep interval is.
Rearm_always(a) == a.SleepInterval

\* Lines 259-261: the label timer after a cycle that did not return.
Rearm(a) == IF a.SleepInterval > 0 THEN a.SleepInterval ELSE Received(0)

\* One-shot honoured only without a sleep interval.
CycleEnd_sleep(a, failed) ==
    IF failed THEN "failed"
    ELSE IF a.Oneshot /\ a.SleepInterval = 0 THEN "oneshot"
    ELSE "continue"

\* Lines 250-257: how a cycle ends: the report failed, one-shot, or the
\* loop goes on.
CycleEnd(a, failed) ==
    IF failed THEN "failed" ELSE IF a.Oneshot THEN "oneshot" ELSE "continue"

\* case <-labelTrigger.  advertised: the SetLabels call, if made, succeeds.
LabelTrigger ==
    /\ pc = "running"
    /\ labelTrigger = 0
    /\ \E advertised \in BOOLEAN, disc \in Discoveries(sources) :
          LET report == client # 0
              failed == report /\ ~advertised
          IN /\ discovery' = disc
             /\ labels' = createFeatureLabels(sources, labelWhiteList, disc)
             /\ last' = [Did("label", S) EXCEPT !.discover = TRUE,
                                             !.setLabels = report]
             /\ cycles' = Bump(cycles)
             /\ sinceReconf' = Bump(sinceReconf)
             /\ IF CycleEnd(args, failed) = "failed"
                THEN /\ Return("failed to advertise labels", S, TRUE)
                     /\ labelTrigger' = Received(labelTrigger)
                ELSE IF CycleEnd(args, failed) = "oneshot"
                THEN /\ Return("nil", S, TRUE)
                     /\ labelTrigger' = Received(labelTrigger)
                ELSE /\ UNCHANGED <<pc, result, clientConn, client, open>>
                     /\ labelTrigger' = Rearm(args)
    /\ UNCHANGED <<fixed, config, configTrigger, configWatch,
                   paths, burst, owed, sinceEvent>>

\* A pending debounce timer left as it is.
Rebuild_noreset(env) ==
    LET aw == addConfigWatch(configFilePath, configWatch, env.created,
                             env.addable)
    IN /\ configWatch' = aw.w
       /\ paths' = aw.paths
       /\ IF aw.err
          THEN /\ Return("watch", S, TRUE)
               /\ UNCHANGED <<configTrigger, burst, owed, sinceEvent>>
          ELSE /\ configTrigger' = IF configTrigger = NoTimer THEN Debounce
                                   ELSE configTrigger
               /\ sinceEvent' = 0
               /\ burst' = IF configTrigger = NoTimer THEN 1 ELSE Bump(burst)
               /\ owed' = IF configTrigger = NoTimer THEN owed + 1 ELSE owed
               /\ UNCHANGED <<pc, result, clientConn, client, open>>

\* Lines 270-282: the watcher is rebuilt and the debounce timer armed.
Rebuild(env) ==
    LET aw == addConfigWatch(configFilePath, configWatch, env.created,
                             env.addable)
    IN /\ configWatch' = aw.w
       /\ paths' = aw.paths
       /\ IF aw.err
          THEN /\ Return("watch", S, TRUE)
               /\ UNCHANGED <<configTrigger, burst, owed, sinceEvent>>
          ELSE /\ configTrigger' = Debounce
               /\ sinceEvent' = 0
               /\ burst' = IF configTrigger = NoTimer THEN 1 ELSE Bump(burst)
               /\ owed' = IF configTrigger = NoTimer THEN owed + 1 ELSE owed
               /\ UNCHANGED <<pc, result, clientConn, client, open>>

\* Every event taken for one of a watched path.
Relevant_any(name, ps) == TRUE

\* Line 265: the event's name, cleaned, is in the watch set ps.
Relevant(name, ps) == Clean(name) \in ps

\* What the handler does with the events the watcher w may deliver, the
\* watch set being ps: an event acts through the lookup of its name alone.
\* taken: the handler takes the event for one of a watched path; relevant:
\* the event is one of a watched path.
Lookups(w, ps) ==
    {[taken |-> Relevant(name, ps), relevant |-> Clean(name) \in ps] :
        name \in {n \in EventNames : Deliverable(w, n)}}

\* case e := <-configWatch.Events
WatchEvent ==
    /\ pc = "running"
    /\ \E e \in Lookups(configWatch, paths) :
          /\ last' = [Did("event", S) EXCEPT !.relevant = e.relevant]
          /\ IF e.taken
             THEN \E env \in WatchEnvs(configFilePath) : Rebuild(env)
             ELSE UNCHANGED <<pc, result, clientConn, client, open,
                              configWatch, paths, configTrigger, burst, owed,
                              sinceEvent>>
    /\ UNCHANGED <<fixed, discovery, labels, config, labelTrigger, cycles,
                   sinceReconf>>

\* A watcher error that ends Run.
WatchError_fatal ==
    /\ pc = "running"
    /\ last' = Did("error", S)
    /\ Return("watcher error", S, TRUE)
    /\ UNCHANGED <<fixed, discovery, labels, config, labelTrigger,
                   configTrigger, configWatch, paths, cycles, sinceReconf,
                   burst, owed, sinceEvent>>

\* case e := <-configWatch.Errors
WatchError ==
    /\ pc = "running"
    /\ last' = Did("error", S)
    /\ UNCHANGED <<pc, result, fixed, discovery, labels, config, clientConn,
                   client, open, labelTrigger, configTrigger, configWatch,
                   paths, cycles, sinceReconf, burst, owed, sinceEvent>>

\* The connection kept when dry-run is turned on.
ManageConnection_keep(cfg, s, outcome) ==
    IF cfg.Core.NoPublish
    THEN [s |-> s, err |-> "no", dialed |-> FALSE]
    ELSE IF s.clientConn = 0
    THEN connect(cfg, s, outcome)
    ELSE [s |-> s, err |-> "no", dialed |-> FALSE]

\* The error of connect dropped.
ManageConnection_ignore(cfg, s, outcome) ==
    IF cfg.Core.NoPublish
    THEN [s |-> disconnect(s), err |-> "no", dialed |-> FALSE]
    ELSE IF s.clientConn = 0
    THEN [connect(cfg, s, outcome) EXCEPT !.err = "nil"]
    ELSE [s |-> s, err |-> "no", dialed |-> FALSE]

\* connect called whenever dry-run is off.
ManageConnection_reconnect(cfg, s, outcome) ==
    IF cfg.Core.NoPublish
    THEN [s |-> disconnect(s), err |-> "no", dialed |-> FALSE]
    ELSE connect(cfg, s, outcome)

\* Lines 290-297: the connection after a reconfiguration that gave cfg.
ManageConnection(cfg, s, outcome) ==
    IF cfg.Core.NoPublish
    THEN [s |-> disconnect(s), err |-> "no", dialed |-> FALSE]
    ELSE IF s.clientConn = 0
    THEN connect(cfg, s, outcome)
    ELSE [s |-> s, err |-> "no", dialed |-> FALSE]

\* The pending label timer left alone.
Relabel_keep(t) == t

\* Line 300: labelTrigger = time.After(0), whatever timer t was pending.
Relabel(t) == 0

\* case <-configTrigger
ConfigTrigger ==
    /\ pc = "running"
    /\ configTrigger = 0
    /\ \E file \in ReadFile(configFilePath), outcome \in ConnectOutcomes :
       \E order \in RangeOrders(file, args.Options) :
          LET cfg == configure(args, sources, file, order)
              r == ManageConnection(cfg, S, outcome)
          IN /\ config' = cfg
             /\ last' = [Did("config", S) EXCEPT !.connect = r.err,
                                              !.dialed = r.dialed]
             /\ IF r.err \notin {"no", "nil"}
                THEN /\ Return(r.err, r.s, TRUE)
                     /\ UNCHANGED labelTrigger
                ELSE /\ UNCHANGED <<pc, result>>
                     /\ Keep(r.s)
                     /\ labelTrigger' = Relabel(labelTrigger)
    /\ configTrigger' = Received(configTrigger)
    /\ owed' = owed - 1
    /\ sinceEvent' = NoTimer
    /\ sinceReconf' = 0
    /\ UNCHANGED <<fixed, discovery, labels, configWatch, paths, cycles, burst>>

\* One time unit passes: every timer that has not fired yet gets closer.
Elapse(t) == IF t > 0 THEN t - 1 ELSE t

Tick ==
    /\ pc = "running"
    /\ labelTrigger > 0 \/ configTrigger > 0
    /\ labelTrigger' = Elapse(labelTrigger)
    /\ configTrigger' = Elapse(configTrigger)
    /\ sinceEvent' = IF sinceEvent = NoTimer THEN NoTimer
                     ELSE Min(sinceEvent + 1, Debounce)
    /\ UNCHANGED <<pc, result, fixed, discovery, labels, config, clientConn,
                   client, open, configWatch, paths, last, cycles,
                   sinceReconf, burst, owed>>

Next ==
    \/ RunStart
    \/ LabelTrigger
    \/ WatchEvent
    \/ WatchError
    \/ ConfigTrigger
    \/ Tick

Spec == Init /\ [][Next]_vars

\* Run in one-shot mode.  The select statement picks at random among the
\* ready cases, so a case that stays ready is taken in the end.
InitOneshot == Init /\ args.Oneshot

OneshotSpec ==
    InitOneshot /\ [][Next]_vars /\ WF_vars(RunStart) /\ WF_vars(LabelTrigger)

\* Run with a config file, configured by the file alone, with time passing
\* and with a timer that has fired received in the end: the select
\* statement picks at random among the ready cases.
InitDebounce ==
    /\ Init
    /\ args.ConfigFile # <<>> /\ args.Options = EmptyDoc
    /\ args.NoPublish = "nil"

DebounceSpec ==
    InitDebounce /\ [][Next]_vars /\ WF_vars(Tick) /\ WF_vars(ConfigTrigger)

\* ------------------------------------------------- the methods on their own
\* connect, disconnect and configure called in any order on a constructed
\* worker (as the package's own tests may).
ApiConnect ==
    /\ \E outcome \in ConnectOutcomes :
          LET r == connect(config, S, outcome)
          IN /\ Keep(r.s)
             /\ last' = [Did("connect", S) EXCEPT !.connect = r.err,
                                                  !.dialed = r.dialed]
    /\ UNCHANGED <<pc, result, fixed, discovery, labels, config, labelTrigger,
                   configTrigger, configWatch, paths, cycles, sinceReconf,
                   burst, owed, sinceEvent>>

ApiDisconnect ==
    /\ Keep(disconnect(S))
    /\ last' = Did("disconnect", S)
    /\ UNCHANGED <<pc, result, fixed, discovery, labels, config, labelTrigger,
                   configTrigger, configWatch, paths, cycles, sinceReconf,
                   burst, owed, sinceEvent>>

ApiConfigure ==
    /\ \E file \in ReadFile(configFilePath) :
       \E order \in RangeOrders(file, args.Options) :
          config' = configure(args, sources, file, order)
    /\ last' = Did("configure", S)
    /\ UNCHANGED <<pc, result, fixed, discovery, labels, clientConn, client,
                   open, labelTrigger, configTrigger, configWatch, paths,
                   cycles, sinceReconf, burst, owed, sinceEvent>>

NextApi ==
    \/ ApiConnect
    \/ ApiDisconnect
    \/ ApiConfigure

SpecApi == Init /\ [][NextApi]_vars

\* ---------------------------------------------- discovery cycles on their own
\* createFeatureLabels called on the sources and the whitelist of a worker
\* constructed with the --sources and --label-whitelist values tried.
LabelArgsSet ==
    [Oneshot : {FALSE}, SleepInterval : {0}, NoPublish : {"nil"},
     Options : {EmptyDoc}, ConfigFile : {<<>>},
     Sources : SourceLists, LabelWhiteList : WhiteLists]

InitLabels == (\E a \in LabelArgsSet : Constructed(a)) /\ NotStarted

\* One discovery cycle.
CreateFeatureLabels ==
    /\ cycles = 0
    /\ cycles' = 1
    /\ \E disc \in Discoveries(sources) :
          /\ discovery' = disc
          /\ labels' = createFeatureLabels(sources, labelWhiteList, disc)
    /\ last' = [Did("labels", S) EXCEPT !.discover = TRUE]
    /\ UNCHANGED <<pc, result, fixed, config, clientConn, client, open,
                   labelTrigger, configTrigger, configWatch, paths,
                   sinceReconf, burst, owed, sinceEvent>>

NextLabels == CreateFeatureLabels

LabelSpec == InitLabels /\ [][NextLabels]_vars

\* ---------------------------------------------------- configure on its own
\* The sources sections with, for each name of allowed, no section or one
\* of the sections allowed for it.
SectionMaps(allowed) ==
    UNION { {m \in [ks -> UNION {allowed[n] : n \in DOMAIN allowed}] :
                \A n \in ks : m[n] \in allowed[n]} :
            ks \in SUBSET DOMAIN allowed }

\* The config files tried: sections for cpu and kernel, and for gpu, which
\* is not the name of a source.
SourceFileDocs ==
    [kind : {"doc"}, noPublish : {"absent", "true"},
     sources : SectionMaps([n \in {<<"cpu">>, <<"kernel">>, <<"gpu">>} |->
                              IF n = <<"gpu">> THEN {"x"} ELSE {"f", "bad"}])]
    \cup {Unreadable}
    \cup [kind : {"invalid"}, noPublish : {"absent"}, sources : {NoSections}]

\* The config file as first installed.
InstalledFiles ==
    { Unreadable,
      [kind |-> "doc", noPublish |-> "true",
       sources |-> [n \in {<<"cpu">>, <<"kernel">>} |-> "f"]] }

\* The --options values tried.
OptionDocs ==
    [kind : {"doc"}, noPublish : {"absent", "false", "notbool"},
     sources : SectionMaps([n \in {<<"cpu">>, <<"kernel">>} |->
                              IF n = <<"cpu">> THEN {"o", "bad"} ELSE {"o"}])]
    \cup [kind : {"invalid"}, noPublish : {"absent"}, sources : {NoSections}]

ConfigArgsSet ==
    [Oneshot : {FALSE}, SleepInterval : {0}, NoPublish : {"nil", "true"},
     Options : OptionDocs, ConfigFile : {<<"/", "d", "f">>},
     Sources : { << <<"cpu">>, <<" ", "kernel">> >>, << <<"kernel">> >> },
     LabelWhiteList : {[anchored |-> FALSE, lit |-> <<>>]}]

InitConfig == (\E a \in ConfigArgsSet : Constructed(a)) /\ NotStarted

\* w.configure(w.configFilePath, w.args.Options), called when the file is
\* as installed and once more after the file was changed.  last keeps the
\* file read, the orders taken and the configuration before the call.
Configure ==
    /\ last.kind = "none" \/ (last.kind = "configure" /\ last.n = 1)
    /\ \E file \in (IF last.kind = "none" THEN InstalledFiles
                     ELSE SourceFileDocs) :
       \E order \in RangeOrders(file, args.Options) :
          /\ config' = configure(args, sources, file, order)
          /\ last' = [kind |-> "configure",
                      n |-> IF last.kind = "none" THEN 1 ELSE 2,
                      file |-> file, order |-> order, prev |-> config]
    /\ UNCHANGED <<pc, result, fixed, discovery, labels, clientConn, client,
                   open, labelTrigger, configTrigger, configWatch, paths,
                   cycles, sinceReconf, burst, owed, sinceEvent>>

NextConfig == Configure

ConfigSpec == InitConfig /\ [][NextConfig]_vars

\* ------------------------------------------------------------------ claims
\* C1: a label cycle run in dry-run (disable-publish set in the effective
\* configuration) performs discovery and attempts no SetLabels call; and when
\* the debounce handler has loaded a configuration with disable-publish set,
\* no connection is left when the handler finishes.
C1_DryRun ==
    /\ (last.kind = "label" /\ config.Core.NoPublish)
          => (last.discover /\ ~last.setLabels)
    /\ (last.kind = "config" /\ config.Core.NoPublish)
          => (clientConn = 0 /\ client = 0 /\ open = {})

\* A dry-run cycle that follows a reconfiguration which took dry-run from the
\* config file.
C1_Witness ==
    /\ last.kind = "label" /\ config.Core.NoPublish /\ last.discover
    /\ cycles = 2 /\ sinceReconf = 1
    /\ args.NoPublish = "nil" /\ args.Options = EmptyDoc

\* C2: whatever the sequence of connect, disconnect and configure calls, at
\* most one channel is open, and it is the one the worker holds; connect
\* called with dry-run off while a connection exists returns the "already
\* exists" error without dialing, the connection still in place.
C2_OneConnection ==
    /\ Cardinality(open) <= 1
    /\ client = clientConn
    /\ open = (IF clientConn = 0 THEN {} ELSE {clientConn})
    /\ (last.kind = "connect" /\ last.hadConn /\ ~config.Core.NoPublish)
          => (last.connect = "exists" /\ ~last.dialed /\ clientConn # 0)

C2_Witness ==
    last.kind = "connect" /\ last.hadConn /\ ~config.Core.NoPublish

\* C3 as stated: once in the loop, Run ends only by a one-shot success, a
\* connect error after a reconfiguration or a failed report; handling a
\* watcher event or a watcher error never ends it.
C3_Original ==
    /\ (pc = "done" /\ last.kind # "start")
          => \/ result = "nil" /\ args.Oneshot
             \/ last.kind = "config" /\ result = last.connect
             \/ result = "failed to advertise labels"
    /\ last.kind \in {"event", "error"} => pc = "running"

\* C3 amended: once in the loop, Run ends only by a one-shot success, a failed
\* report, a connect error after a reconfiguration, or a failed rebuild of the
\* watcher while handling an event of a watched path; handling a watcher
\* error, or an event of a path outside the watch set, never ends it.
C3_Termination ==
    /\ (pc = "done" /\ last.kind # "start")
          => \/ last.kind = "label" /\ result = "nil" /\ args.Oneshot
             \/ /\ last.kind = "label" /\ last.setLabels
                /\ result = "failed to advertise labels"
             \/ /\ last.kind = "config" /\ last.connect \in {"tls", "dial"}
                /\ result = last.connect
             \/ last.kind = "event" /\ last.relevant /\ result = "watch"
    /\ last.kind = "error" => pc = "running"
    /\ (last.kind = "event" /\ ~last.relevant) => pc = "running"

\* Run ended by the rebuild of the watcher failing in the event handler.
C3_Witness ==
    pc = "done" /\ last.kind = "event" /\ last.relevant /\ result = "watch"

\* C4 as stated: in one-shot mode a Run that got into the loop ends
\* successfully after exactly one cycle.
C4_Original ==
    (pc = "done" /\ last.kind # "start") => (result = "nil" /\ cycles = 1)

\* C4 amended: in one-shot mode, whatever the sleep interval and the watcher
\* events, Run ends; it performs at most one cycle and ends right after it,
\* successfully unless the report call failed; a successful end comes after
\* exactly one cycle; the label timer is never armed with the sleep interval
\* (while the loop runs it is the timer of zero delay).
C4_Oneshot ==
    /\ [](/\ cycles <= 1
          /\ cycles = 1 =>
                /\ pc = "done" /\ last.kind = "label"
                /\ result \in {"nil", "failed to advertise labels"}
                /\ result # "nil" => last.setLabels
          /\ (pc = "done" /\ result = "nil") => cycles = 1
          /\ pc = "running" => labelTrigger = 0)
    /\ <>(pc = "done")

\* A one-shot run with the largest sleep interval, ended successfully after
\* its cycle, watched-path events handled before it.
C4_Witness ==
    /\ pc = "done" /\ result = "nil" /\ cycles = 1 /\ last.kind = "label"
    /\ args.SleepInterval = MaxSleep /\ burst >= 1

\* C5: only the debounce-timer handler reconfigures (the event handler leaves
\* the configuration alone), and every burst of watched-path events gets
\* exactly one reconfiguration: while a burst awaits its reconfiguration one
\* debounce timer is pending, and after it none is.
C5_Debounce ==
    /\ [](/\ owed \in {0, 1}
          /\ pc = "running" => (owed = 1 <=> configTrigger # NoTimer))
    /\ [][/\ last'.kind = "event" => (config' = config /\ owed' >= owed)
          /\ owed' < owed => (configTrigger = 0 /\ last'.kind = "config")]_vars

\* A burst of two or more events, reconfigured once.
C5_Witness == last.kind = "config" /\ burst >= 2 /\ owed = 0

\* C6: after a reconfiguration that did not end Run, the label timer is the
\* timer of zero delay, whatever it was before.
C6_Relabel ==
    (last.kind = "config" /\ pc = "running") => labelTrigger = 0

\* A reconfiguration after a cycle, with no sleep interval: the label timer
\* had nothing more to deliver.
C6_Witness ==
    /\ last.kind = "config" /\ pc = "running" /\ labelTrigger = 0
    /\ args.SleepInterval = 0 /\ ~args.Oneshot /\ cycles >= 1

\* C7: a reconfiguration that gives dry-run off while there is no connection
\* calls connect; if connect fails Run ends with its error, else the loop goes
\* on connected.
C7_ConnectAfterReconf ==
    (last.kind = "config" /\ ~config.Core.NoPublish /\ ~last.hadConn)
       => /\ last.connect # "no"
          /\ last.connect = "nil" => (pc = "running" /\ clientConn # 0)
          /\ last.connect # "nil" =>
                (pc = "done" /\ result = last.connect /\ clientConn = 0)

C7_Witness ==
    /\ last.kind = "config" /\ ~config.Core.NoPublish /\ ~last.hadConn
    /\ last.connect = "dial" /\ pc = "done"

\* C8: when Run has returned, the worker holds no connection and no client,
\* and no channel is open.
C8_ClosedAtReturn ==
    pc = "done" => (clientConn = 0 /\ client = 0 /\ open = {})

\* A return from a handler that began with a connection.
C8_Witness == pc = "done" /\ last.hadConn /\ open = {}

\* C9: with no sleep interval and one-shot off, at most one cycle runs after
\* the start and after each reconfiguration: the label timer is pending until
\* that cycle has run and has nothing more to deliver afterwards.
C9_NoRearm ==
    (args.SleepInterval = 0 /\ ~args.Oneshot)
       => /\ sinceReconf <= 1
          /\ pc = "running" =>
                labelTrigger = (IF sinceReconf = 0 THEN 0 ELSE NoTimer)

\* The cycle a reconfiguration triggered, after the first one.
C9_Witness ==
    /\ args.SleepInterval = 0 /\ ~args.Oneshot /\ pc = "running"
    /\ last.kind = "label" /\ cycles = 2 /\ sinceReconf = 1

\* C10: with dry-run set by the configuration loaded at startup, the initial
\* connect succeeds without dialing, and the loop is entered with no
\* connection.
C10_DryRunStart ==
    (last.kind = "start" /\ config.Core.NoPublish)
       => /\ last.connect = "nil" /\ ~last.dialed
          /\ pc = "running" /\ clientConn = 0 /\ client = 0 /\ open = {}

C10_Witness ==
    last.kind = "start" /\ config.Core.NoPublish /\ pc = "running"

\* C16: a label timer armed at the end of a cycle is armed for at least
\* one second.
C16_AtLeastOneSecond ==
    [][(pc = "running" /\ labelTrigger = 0 /\ labelTrigger' > 0)
          => labelTrigger' >= Second]_vars

\* C17: while Run is in its loop there is a connection exactly when the
\* configuration has dry-run off, and a client exactly when there is a
\* connection.
C17_Consistent ==
    pc = "running"
       => /\ clientConn # 0 <=> ~config.Core.NoPublish
          /\ client # 0 <=> clientConn # 0

\* The loop after a reconfiguration that turned dry-run on and closed the
\* connection.
C17_Witness ==
    /\ pc = "running" /\ last.kind = "config" /\ last.hadConn
    /\ config.Core.NoPublish /\ clientConn = 0 /\ client = 0

\* C18: connect never returns "client connection already exists" in Run,
\* and a reconfiguration that begins with a connection and gives dry-run off
\* does not call connect, does not dial and leaves the connection as it is.
C18_NoSecondConnect ==
    /\ [](last.connect # "exists")
    /\ [][(pc = "running" /\ configTrigger = 0 /\ last'.kind = "config"
             /\ configTrigger' # configTrigger
             /\ clientConn # 0 /\ ~config'.Core.NoPublish)
            => /\ last'.connect = "no" /\ ~last'.dialed
               /\ clientConn' = clientConn /\ client' = client
               /\ open' = open /\ pc' = "running"]_vars

\* A reconfiguration that began with a connection and kept dry-run off.
C18_Witness ==
    /\ last.kind = "config" /\ last.hadConn /\ ~config.Core.NoPublish
    /\ pc = "running" /\ clientConn # 0 /\ last.connect = "no"

\* C19: the handler of an event whose cleaned name is not in the watch set
\* leaves the watcher, the watch set, both timers, the configuration, the
\* connection and Run's position as they are.
C19_IrrelevantEvent ==
    [][(last' # last /\ last'.kind = "event" /\ ~last'.relevant)
          => UNCHANGED <<configWatch, paths, configTrigger, labelTrigger,
                         config, clientConn, client, open, pc, result>>]_vars

\* Such an event handled while the debounce timer was pending and a
\* connection open.
C19_Witness ==
    /\ last.kind = "event" /\ ~last.relevant /\ pc = "running"
    /\ configTrigger > 0 /\ clientConn # 0 /\ labelTrigger > 0

\* The handler of a watched-path event that rebuilt the watcher.
WatchedEvent ==
    /\ last'.kind = "event" /\ last'.relevant
    /\ configWatch' # configWatch /\ pc' = "running"

\* Watched-path events stop arriving, and every rebuild succeeds.
EventsStop == <>[][~WatchedEvent]_vars /\ [](result # "watch")

\* C20 as claimed: once watched-path events stop, a watched-path event is
\* followed by a reconfiguration.
C20_Original == EventsStop => ((owed = 1) ~> (owed = 0))

\* C20: every watched-path event leaves the debounce timer at its full
\* interval; a reconfiguration comes no earlier than Debounce after the
\* latest watched-path event; and once watched-path events stop, a
\* watched-path event is followed by a reconfiguration or by the return of
\* Run.
C20_Debounce ==
    /\ [][/\ WatchedEvent => (configTrigger' = Debounce /\ owed' = 1)
          /\ owed' < owed => sinceEvent = Debounce]_vars
    /\ EventsStop => ((owed = 1) ~> (owed = 0 \/ pc = "done"))

\* A watched-path event handled while the debounce timer of an earlier one
\* was pending.
C20_Witness ==
    /\ last.kind = "event" /\ last.relevant /\ pc = "running"
    /\ burst >= 2 /\ owed = 1 /\ configTrigger = Debounce /\ sinceEvent = 0

\* ---- the discovery cycle (LabelSpec)
\* A cycle was run.
Ran == last.kind = "labels"

\* Source n failed in the latest cycle: its discovery returned an error or
\* panicked.
Failed(n) == discovery[n].result # "ok"

\* The labels source n had accumulated when its discovery ended.
Own(n) ==
    LabelsOf(n, labelWhiteList, discovery[n].features,
             IF discovery[n].result = "panic" THEN discovery[n].done
             ELSE DOMAIN discovery[n].features)

\* C11: in a cycle, every label of the result is the label of a source that
\* did not fail, with the value of the last such source in the order of the
\* sources, and every label of every source that did not fail is in the
\* result: a failed source contributes nothing, whatever it had accumulated,
\* and does not stop the sources after it.
C11_Isolation ==
    Ran =>
       /\ \A l \in DOMAIN labels :
             \E i \in 1..Len(sources) :
                /\ ~Failed(sources[i])
                /\ l \in DOMAIN Own(sources[i])
                /\ labels[l] = Own(sources[i])[l]
                /\ \A j \in (i+1)..Len(sources) :
                      Failed(sources[j]) \/ l \notin DOMAIN Own(sources[j])
       /\ \A i \in 1..Len(sources) :
             ~Failed(sources[i]) =>
                DOMAIN Own(sources[i]) \subseteq DOMAIN labels

\* A source panicked after it had accumulated a label, the label is not in
\* the result, and a later source gave a label that is.
C11_Witness ==
    /\ Ran
    /\ \E i \in 1..Len(sources), j \in 1..Len(sources) :
          /\ i < j
          /\ discovery[sources[i]].result = "panic"
          /\ \E l \in DOMAIN Own(sources[i]) : l \notin DOMAIN labels
          /\ ~Failed(sources[j])
          /\ \E l \in DOMAIN Own(sources[j]) : l \in DOMAIN labels

\* The position of the local source among the active sources, or 0.
LocalAt ==
    IF \E i \in 1..Len(sources) : sources[i] = <<"local">>
    THEN CHOOSE i \in 1..Len(sources) : sources[i] = <<"local">>
    ELSE 0

\* C12: when a source before the local source and the local source both
\* give a label of the same name in a cycle, the result has the local
\* source's value; cpu giving model=x86_64 and local giving cpu-model=arm64,
\* with a whitelist that matches everything, yield exactly cpu-model=arm64.
C12_Override ==
    (Ran /\ LocalAt # 0 /\ ~Failed(<<"local">>)) =>
       /\ \A i \in 1..(LocalAt - 1) :
             ~Failed(sources[i]) =>
                \A l \in DOMAIN Own(sources[i]) \cap DOMAIN Own(<<"local">>) :
                   labels[l] = Own(<<"local">>)[l]
       /\ ( /\ sources = << <<"cpu">>, <<"local">> >>
            /\ labelWhiteList.lit = <<>>
            /\ discovery[<<"cpu">>] =
                  [result |-> "ok", done |-> {},
                   features |-> [k \in {<<"model">>} |->
                                   [type |-> "string", val |-> <<"x86_64">>]]]
            /\ discovery[<<"local">>] =
                  [result |-> "ok", done |-> {},
                   features |-> [k \in {<<"cpu", "-", "model">>} |->
                                   [type |-> "string", val |-> <<"arm64">>]]] )
          => labels = [l \in {<<"cpu", "-", "model">>} |-> <<"arm64">>]

\* cpu and local gave the same label name with different values.
C12_Witness ==
    /\ Ran /\ LocalAt = 2 /\ sources[1] = <<"cpu">>
    /\ ~Failed(<<"cpu">>) /\ ~Failed(<<"local">>)
    /\ <<"cpu", "-", "model">> \in DOMAIN Own(<<"cpu">>)
    /\ <<"cpu", "-", "model">> \in DOMAIN Own(<<"local">>)
    /\ Own(<<"cpu">>)[<<"cpu", "-", "model">>] = <<"x86_64">>
    /\ labels = [l \in {<<"cpu", "-", "model">>} |-> <<"arm64">>]

\* Feature k of source n, found in the latest cycle by a source that did
\* not fail, has a valid name and a valid value.
Valid(n, k) ==
    /\ ~Failed(n) /\ k \in DOMAIN discovery[n].features
    /\ IsQualifiedName(Names(n, k).nameForValidation)
    /\ IsValidLabelValue(Sprintf(discovery[n].features[k]))

\* No other active source gave the label of feature k of source n.
Alone(n, k) ==
    \A i \in 1..Len(sources) :
       sources[i] # n => Names(n, k).label \notin DOMAIN Own(sources[i])

\* The label of a valid feature is in the result if name matches the
\* whitelist, and if name does not match, it is not there unless another
\* source gave it.
KeptIffMatches(n, k, name) ==
    /\ MatchString(labelWhiteList, name)
          => Names(n, k).label \in DOMAIN labels
    /\ (~MatchString(labelWhiteList, name) /\ Alone(n, k))
          => Names(n, k).label \notin DOMAIN labels

\* C13 as claimed: the whitelist is matched against name for a key ns/name
\* and against the raw key for a key without a namespace.
C13_Original ==
    Ran => \A i \in 1..Len(sources) :
              \A k \in DOMAIN discovery[sources[i]].features :
                 Valid(sources[i], k) =>
                    KeptIffMatches(sources[i], k,
                        IF SlashAt(k) # 0 THEN SplitN2(k)[2] ELSE k)

\* C13: the whitelist is matched against name for a key ns/name, and for a
\* key without a namespace against the label name: the key with the
\* "<sourceName>-" prefix of its source (no prefix for the local source).
C13_Whitelist ==
    Ran => \A i \in 1..Len(sources) :
              \A k \in DOMAIN discovery[sources[i]].features :
                 Valid(sources[i], k) =>
                    KeptIffMatches(sources[i], k,
                        IF SlashAt(k) # 0 THEN SplitN2(k)[2]
                        ELSE Prefix(sources[i]) \o k)

\* cpu gave model with the whitelist "cpu": the label cpu-model is kept; and
\* a key ns/model was dropped by the whitelist "ns".
C13_Witness ==
    /\ Ran /\ ~Failed(<<"cpu">>)
    /\ \/ /\ labelWhiteList = [anchored |-> FALSE, lit |-> <<"cpu">>]
          /\ Valid(<<"cpu">>, <<"model">>)
          /\ <<"cpu", "-", "model">> \in DOMAIN labels
       \/ /\ labelWhiteList = [anchored |-> TRUE, lit |-> <<"model">>]
          /\ Valid(<<"cpu">>, <<"model">>)
          /\ labels = EmptyLabels

\* ---- configure (ConfigSpec)
\* configure was called.
Configured == last.kind = "configure"

ActiveNames == {sources[i] : i \in 1..Len(sources)}

\* The file read by the latest call parsed as a whole or not at all.
FileClean ==
    /\ last.file.noPublish # "notbool"
    /\ \A n \in DOMAIN last.file.sources \cap ActiveNames :
          last.file.sources[n] # "bad"

\* The defaults and on top of them the contents of a file that parsed.
FileOnDefaults ==
    [Core |-> [NoPublish |-> last.file.kind = "doc"
                             /\ last.file.noPublish = "true"],
     Sources |-> [n \in ActiveNames |->
                     IF last.file.kind = "doc" /\ n \in DOMAIN last.file.sources
                     THEN last.file.sources[n] ELSE NewConfig(n)]]

\* The --no-publish flag applied to configuration c.
WithFlag(c) ==
    IF args.NoPublish = "nil" THEN c
    ELSE [c EXCEPT !.Core.NoPublish = (args.NoPublish = "true")]

\* The configuration of the latest call when the file had been read: the
\* defaults with the part of the file that was decoded.
FileLayer ==
    LET c0 == [newDefaultConfig EXCEPT
                  !.Sources = [n \in ActiveNames |-> NewConfig(n)]]
    IN IF last.file.kind = "unreadable" THEN c0
       ELSE Unmarshal(last.file, c0, last.order.file).c

\* The error of parsing --options in the latest call.
OptionsErr == Unmarshal(args.Options, FileLayer, last.order.options).err

\* C14 as claimed: when parsing --options gave an error, the configuration
\* is the defaults with the contents of the file (and the --no-publish flag).
C14_Original ==
    (Configured /\ OptionsErr # NoError) => config = WithFlag(FileLayer)

\* C14: after a reconfiguration whose --options gave an error, every entry
\* of the configuration is the one of the defaults with the contents of the
\* file, or the one --options gives (the part decoded before the error);
\* when --options is not a document at all the configuration is the defaults
\* with the contents of the file; in both cases with the --no-publish flag
\* applied.  Nothing comes from the configuration before.
C14_Layered ==
    (Configured /\ OptionsErr # NoError)
       => /\ FileClean => FileLayer = FileOnDefaults
          /\ args.Options.kind = "invalid" => config = WithFlag(FileLayer)
          /\ DOMAIN config.Sources = ActiveNames
          /\ \A n \in ActiveNames :
                \/ config.Sources[n] = FileLayer.Sources[n]
                \/ /\ n \in DOMAIN args.Options.sources
                   /\ args.Options.sources[n] # "bad"
                   /\ config.Sources[n] = args.Options.sources[n]
          /\ \/ config.Core = WithFlag(FileLayer).Core
             \/ /\ args.NoPublish = "nil"
                /\ args.Options.noPublish \in {"true", "false"}
                /\ config.Core.NoPublish = (args.Options.noPublish = "true")

\* The file had set cpu and was changed to one without a cpu section, and
\* --options is not a document: cpu is back at its default, kernel has the
\* value of the new file.
C14_Witness ==
    /\ Configured /\ last.n = 2 /\ args.Options.kind = "invalid"
    /\ <<"cpu">> \in ActiveNames
    /\ last.prev.Sources[<<"cpu">>] = "f" /\ last.prev.Core.NoPublish
    /\ last.file.kind = "doc" /\ FileClean
    /\ config.Sources[<<"cpu">>] = "default"
    /\ config.Sources[<<"kernel">>] = "f"
    /\ ~config.Core.NoPublish
    /\ config = FileOnDefaults

\* The error of parsing the file in the latest call.
FileErr ==
    Unmarshal(last.file,
              [newDefaultConfig EXCEPT
                  !.Sources = [n \in ActiveNames |-> NewConfig(n)]],
              last.order.file).err

\* C15: when the file is a document, a section of an active source that
\* fails to decode gives an error that names the source; the sections of
\* the other active sources are decoded and applied (seen where --options
\* has no section for them); and the sections of names that are not active
\* sources give no error.
C15_Sections ==
    (Configured /\ last.file.kind = "doc") =>
       /\ \A n \in DOMAIN last.file.sources \cap ActiveNames :
             /\ (last.file.sources[n] # "bad"
                   /\ n \notin DOMAIN args.Options.sources)
                   => config.Sources[n] = last.file.sources[n]
             /\ (last.file.sources[n] = "bad"
                   /\ \A m \in DOMAIN last.file.sources \cap ActiveNames :
                         m # n => last.file.sources[m] # "bad")
                   => FileErr = [kind |-> "source", source |-> n]
       /\ (\A n \in DOMAIN last.file.sources \cap ActiveNames :
              last.file.sources[n] # "bad")
             => FileErr.kind # "source"

====
